---- MODULE Spec2Model ----
(***************************************************************************)
(* Sprout: the confidence ledger (chunks, reviews, export), the task       *)
(* store and the scheduler loop, modelled from src/sprout/*.py.            *)
(*                                                                         *)
(* Ledger tool calls are modelled one call per step.  The scheduler loop   *)
(* is modelled one store statement (one await) per step, so that external  *)
(* enqueue / cancel calls interleave with a cycle where the event loop     *)
(* lets them.                                                              *)
(***************************************************************************)
EXTENDS Integers, Sequences, FiniteSets, Bags, TLC

(***************************************************************************)
(* Bounds of the model.                                                    *)
(***************************************************************************)
MaxSubmits == 3      \* submit_chunk calls in a run (chunk ids 1..MaxSubmits)
MaxReviewed == 2     \* submit_chunk calls in a run that reviews in every way
MaxTasks == 2        \* scheduled tasks enqueued in a run (task ids 1..MaxTasks)
MaxTime == 1         \* the clock runs from 0 to MaxTime
MaxFaults == 2       \* store statements of the scheduler that raise in a run
MaxLimit == 2        \* largest limit passed to get_review_queue
MaxRetries == 3      \* record_retry calls in a run
MaxWords == 5        \* words in a submitted content

(***************************************************************************)
(* Values.  None stands for Python's None in a string-typed slot, NoTime   *)
(* for None in a timestamp slot.                                           *)
(***************************************************************************)
None == "<None>"
NoTime == 0 - 1

Projects == {"theology", "history"}
NodeTypes == {"Person", "Council"}
Fields == {"biography"}
TaskTypes == {"biography_synthesis"}
SourceLists == {<<"https://example.com">>}
\* reviews: who verified, and the note left (None when there is none)
Reviews == {<<"sonnet-4.6", None>>, <<"opus-4.6", "needs sources">>}

\* a text of n whitespace-separated words
Text(n) == [i \in 1..n |-> "w"]

\* models.py Confidence
Confidence == {"seed", "watered", "sprouted", "rejected"}
\* strings a caller may pass where a confidence is expected
ConfidenceArgs == Confidence \cup {"bogus"}

\* Python truthiness of an optional string argument (`if project:`)
Truthy(s) == s # None /\ s # ""

\* optional filter arguments: absent, empty, or a value
ProjectArgs == Projects \cup {None, ""}
NodeTypeArgs == NodeTypes \cup {None, ""}

VARIABLES
    chunks,         \* rows of table chunks
    token_usage,    \* rows of table token_usage, in insertion order
    nextChunkId,    \* the next fresh chunk id (uuid4) and production time
    now,            \* the wall clock (UTC)
    ret,            \* the last call: its name, arguments and result
    tasks,          \* rows of table scheduled_tasks, by id
    task_runs,      \* rows of table task_runs, in insertion order
    nextTaskId,     \* the next fresh task id (uuid4)
    pc,             \* where run_scheduler_loop is
    pending,        \* the loop's list of fetched tasks
    idx,            \* the position in pending of the task being processed
    cycle_now,      \* the loop's `now`, read after the fetch
    result,         \* the loop's `result`: what the task body returned
    err,            \* the loop's `e`: the exception the task's handler caught
    faults,         \* store statements that have raised so far
    retries,        \* rows of table retries, in insertion order (rowid = position)
    retry_calls,    \* per caller: the record_retry call it has in progress
    routing_table,  \* router._routing_table
    executed        \* per task id: how often its body has been started

ledgerVars == <<chunks, token_usage, nextChunkId>>
storeVars == <<tasks, task_runs, nextTaskId>>
loopVars == <<pc, pending, idx, cycle_now, result, err>>
schedVars == <<storeVars, loopVars, faults>>
retryVars == <<retries, retry_calls>>
restVars == <<retryVars, routing_table, executed>>
vars == <<ledgerVars, now, ret, schedVars, restVars>>

(***************************************************************************)
(* router.py                                                               *)
(***************************************************************************)
MODEL_CONFIDENCE ==
    [m \in {"haiku-4.5", "sonnet-4.6", "opus-4.6"} |->
        CASE m = "haiku-4.5" -> "seed"
          [] m = "sonnet-4.6" -> "watered"
          [] m = "opus-4.6" -> "sprouted"]

confidence_for_model_always_seed(model) == "seed"

confidence_for_model(model) ==
    IF model \in DOMAIN MODEL_CONFIDENCE THEN MODEL_CONFIDENCE[model] ELSE "seed"

_DEFAULT_ROUTING_TABLE ==
    [t \in {"biography_synthesis", "council_description", "document_synopsis",
            "json_validation", "summarization", "data_extraction",
            "fact_check_first_pass", "code_review", "fact_check_final",
            "theological_analysis", "complex_analysis"} |->
        CASE t = "biography_synthesis" -> <<"haiku", "Factual summarization from web sources">>
          [] t = "council_description" -> <<"haiku", "Historical summarization">>
          [] t = "document_synopsis" -> <<"haiku", "Content summarization">>
          [] t = "json_validation" -> <<"haiku", "Structural verification">>
          [] t = "summarization" -> <<"haiku", "General summarization task">>
          [] t = "data_extraction" -> <<"haiku", "Structured data extraction">>
          [] t = "fact_check_first_pass" -> <<"sonnet", "Cross-reference claims">>
          [] t = "code_review" -> <<"sonnet", "Code analysis and review">>
          [] t = "fact_check_final" -> <<"opus", "Deep factual verification">>
          [] t = "theological_analysis" -> <<"opus", "Domain expertise required">>
          [] t = "complex_analysis" -> <<"opus", "Deep reasoning required">>]

MODEL_IDS ==
    [tier \in {"haiku", "sonnet", "opus"} |->
        CASE tier = "haiku" -> "haiku-4.5"
          [] tier = "sonnet" -> "sonnet-4.6"
          [] tier = "opus" -> "opus-4.6"]

\* MODEL_IDS[tier]: the model identifier, or the KeyError the lookup raises
KeyError(key) == [kind |-> "KeyError", key |-> key]
ModelIdOf(tier) == IF tier \in DOMAIN MODEL_IDS THEN MODEL_IDS[tier] ELSE KeyError(tier)

\* _routing_table[task_type] = (tier, reason)
SetRoute(table, task_type, tier, reason) ==
    [t \in DOMAIN table \cup {task_type} |->
        IF t = task_type THEN <<tier, reason>> ELSE table[t]]

\* what recommend_model returns on table, or the exception it raises
RecommendOf(table, task_type) ==
    IF task_type \in DOMAIN table
    THEN LET tier == table[task_type][1]
             reason == table[task_type][2]
         IN IF tier \notin DOMAIN MODEL_IDS
            THEN KeyError(tier)
            ELSE [kind |-> "ok", task_type |-> task_type,
                  recommended_model |-> ModelIdOf(tier),
                  tier |-> tier, reason |-> reason]
    ELSE [kind |-> "ok", task_type |-> task_type,
          recommended_model |-> ModelIdOf("haiku"),
          tier |-> "haiku", reason |-> "Default: start cheap, escalate if needed"]

add_route(task_type, tier, reason) ==
    /\ routing_table' = SetRoute(routing_table, task_type, tier, reason)
    /\ ret' = [op |-> "add_route", task_type |-> task_type, tier |-> tier,
               reason |-> reason]
    /\ UNCHANGED <<ledgerVars, now, schedVars, retryVars, executed>>

recommend_model(task_type) ==
    /\ ret' = [op |-> "recommend_model", task_type |-> task_type,
               rec |-> RecommendOf(routing_table, task_type)]
    /\ UNCHANGED <<ledgerVars, now, schedVars, restVars>>

(***************************************************************************)
(* db.py: chunks                                                           *)
(***************************************************************************)
Triple(r) == <<r.project, r.node_id, r.field>>

\* INSERT OR REPLACE: rows that collide on the primary key or on
\* UNIQUE(project, node_id, field) are deleted, then the row is inserted.
insert_chunk_append(rows, chunk) == rows \cup {chunk}

insert_chunk_keep_review(rows, chunk) ==
    LET old == {r \in rows : Triple(r) = Triple(chunk)}
        kept == IF old = {} THEN chunk
                ELSE LET o == CHOOSE r \in old : TRUE
                     IN [chunk EXCEPT !.confidence = o.confidence,
                                      !.verified_by = o.verified_by,
                                      !.verified_at = o.verified_at,
                                      !.review_notes = o.review_notes]
    IN {r \in rows : r.id # chunk.id /\ Triple(r) # Triple(chunk)} \cup {kept}

insert_chunk(rows, chunk) ==
    {r \in rows : r.id # chunk.id /\ Triple(r) # Triple(chunk)} \cup {chunk}

\* the rows of S in ascending produced_at order (ORDER BY produced_at)
RECURSIVE OrderByProducedAt(_)
OrderByProducedAt(S) ==
    IF S = {} THEN <<>>
    ELSE LET first == CHOOSE r \in S : \A q \in S : r.produced_at <= q.produced_at
         IN <<first>> \o OrderByProducedAt(S \ {first})

Limit(s, n) == SubSeq(s, 1, IF n < Len(s) THEN n ELSE Len(s))

ReviewQueueOf_unfiltered(rows, project, node_type, confidence, limit) ==
    LET sel == {r \in rows :
                    /\ (Truthy(project) => r.project = project)
                    /\ (Truthy(node_type) => r.node_type = node_type)
                    /\ (Truthy(confidence) => r.confidence = confidence)}
    IN Limit(OrderByProducedAt(sel), limit)

\* the SELECT of get_review_queue on the table rows
ReviewQueueOf(rows, project, node_type, confidence, limit) ==
    LET sel == {r \in rows :
                    /\ (Truthy(project) => r.project = project)
                    /\ (Truthy(node_type) => r.node_type = node_type)
                    /\ IF Truthy(confidence)
                       THEN r.confidence = confidence
                       ELSE r.confidence \in {"seed", "watered"}}
    IN Limit(OrderByProducedAt(sel), limit)

get_review_queue(project, node_type, confidence, limit) ==
    ReviewQueueOf(chunks, project, node_type, confidence, limit)

UpdateReviewed_without_time(rows, chunk_id, verified_by, new_confidence, review_notes, at) ==
    {IF r.id = chunk_id
     THEN [r EXCEPT !.verified_by = verified_by,
                    !.confidence = new_confidence, !.review_notes = review_notes]
     ELSE r : r \in rows}

UpdateReviewed_every_row(rows, chunk_id, verified_by, new_confidence, review_notes, at) ==
    {[r EXCEPT !.verified_by = verified_by, !.verified_at = at,
               !.confidence = new_confidence, !.review_notes = review_notes] : r \in rows}

UpdateReviewed_unless_rejected(rows, chunk_id, verified_by, new_confidence, review_notes, at) ==
    {IF r.id = chunk_id /\ r.confidence # "rejected"
     THEN [r EXCEPT !.verified_by = verified_by, !.verified_at = at,
                    !.confidence = new_confidence, !.review_notes = review_notes]
     ELSE r : r \in rows}

\* UPDATE ... WHERE id = ?
UpdateReviewed(rows, chunk_id, verified_by, new_confidence, review_notes, at) ==
    {IF r.id = chunk_id
     THEN [r EXCEPT !.verified_by = verified_by, !.verified_at = at,
                    !.confidence = new_confidence, !.review_notes = review_notes]
     ELSE r : r \in rows}

\* SELECT * FROM chunks WHERE id = ? ; fetchone (None when there is no row)
NoChunk == [id |-> 0]
SelectChunk(rows, chunk_id) ==
    IF \E r \in rows : r.id = chunk_id
    THEN CHOOSE r \in rows : r.id = chunk_id
    ELSE NoChunk

confidence_levels == [c \in {"seed", "watered", "sprouted"} |->
                        CASE c = "seed" -> 0 [] c = "watered" -> 1 [] c = "sprouted" -> 2]

ExportAllowed_above(min_confidence) ==
    LET min_level == IF min_confidence \in DOMAIN confidence_levels
                     THEN confidence_levels[min_confidence] ELSE 1
    IN {k \in DOMAIN confidence_levels : confidence_levels[k] > min_level}

ExportAllowed(min_confidence) ==
    LET min_level == IF min_confidence \in DOMAIN confidence_levels
                     THEN confidence_levels[min_confidence] ELSE 1
    IN {k \in DOMAIN confidence_levels : confidence_levels[k] >= min_level}

ExportEntry(r) ==
    [nodeId |-> r.node_id, nodeType |-> r.node_type, field |-> r.field,
     content |-> r.content, confidence |-> r.confidence,
     producedBy |-> r.produced_by, sources |-> r.sources,
     verifiedBy |-> r.verified_by]

\* the bag of f(r) for r in S
BagOfEntries(S) ==
    [d \in {ExportEntry(r) : r \in S} |-> Cardinality({r \in S : ExportEntry(r) = d})]

\* the SELECT of export_chunks on the table rows
ExportRowsOf(rows, project, min_confidence) ==
    {r \in rows :
        /\ r.confidence \in ExportAllowed(min_confidence)
        /\ (Truthy(project) => r.project = project)}

\* the result list, as the bag of its entries (SELECT without ORDER BY)
ExportOf(rows, project, min_confidence) ==
    BagOfEntries(ExportRowsOf(rows, project, min_confidence))

export_chunks(project, min_confidence) ==
    ExportOf(chunks, project, min_confidence)

\* get_stats: chunk counts in all, by confidence and by project
get_stats(project) ==
    LET sel == {r \in chunks : Truthy(project) => r.project = project}
    IN [total |-> Cardinality(sel),
        by_confidence |-> [c \in {r.confidence : r \in sel} |->
                              Cardinality({r \in sel : r.confidence = c})],
        by_project |-> [p \in {r.project : r \in sel} |->
                           Cardinality({r \in sel : r.project = p})]]

\* int(word_count * 1.3)
word_count(content) == Len(content)
EstimatedTokens(content) == (word_count(content) * 13) \div 10

record_token_usage(usage, chunk_id, model, content) ==
    Append(usage, [chunk_id |-> chunk_id, model |-> model,
                   estimated_tokens |-> EstimatedTokens(content)])

\* router.py MODEL_PRICING, per million tokens; 0 for a model not listed
MODEL_PRICING(model) ==
    CASE model = "haiku-4.5" -> 5
      [] model = "sonnet-4.6" -> 15
      [] model = "opus-4.6" -> 75
      [] OTHER -> 0

\* get_cost_report(): per model the tokens, the rows and the cost, the cost
\* in millionths of the price unit
get_cost_report ==
    LET rows == {token_usage[i] : i \in 1..Len(token_usage)}
        total(model) == LET RECURSIVE Sum(_)
                            Sum(i) == IF i = 0 THEN 0
                                      ELSE Sum(i - 1) +
                                           (IF token_usage[i].model = model
                                            THEN token_usage[i].estimated_tokens ELSE 0)
                        IN Sum(Len(token_usage))
    IN [model \in {u.model : u \in rows} |->
           [total_tokens |-> total(model),
            count |-> Cardinality({i \in 1..Len(token_usage) : token_usage[i].model = model}),
            estimated_cost |-> total(model) * MODEL_PRICING(model)]]

(***************************************************************************)
(* db.py: retries.  record_retry is two store statements, the INSERT and   *)
(* the SELECT COUNT, with an await between them.                           *)
(***************************************************************************)
Callers == {"a", "b"}
NoCall == [rowid |-> 0]

\* SELECT COUNT(*) FROM retries WHERE chunk_id = ?
RetryCountOf_all(log, chunk_id) == Len(log)

RetryCountOf(log, chunk_id) ==
    Cardinality({i \in 1..Len(log) : log[i].chunk_id = chunk_id})

\* record_retry, lines 368-374: the INSERT and its commit
RetryInsert(caller, chunk_id, error_message) ==
    /\ retry_calls[caller] = NoCall
    /\ Len(retries) < MaxRetries
    /\ retries' = Append(retries, [chunk_id |-> chunk_id,
                                   error_message |-> error_message,
                                   recorded_at |-> now])
    /\ retry_calls' = [retry_calls EXCEPT ![caller] =
                          [rowid |-> Len(retries) + 1, chunk_id |-> chunk_id]]
    /\ UNCHANGED <<ledgerVars, now, ret, schedVars, routing_table, executed>>

\* record_retry, lines 375-379: the count, returned
RetryReturn(caller) ==
    /\ retry_calls[caller] # NoCall
    /\ ret' = [op |-> "record_retry", caller |-> caller,
               chunk_id |-> retry_calls[caller].chunk_id,
               rowid |-> retry_calls[caller].rowid,
               cnt |-> RetryCountOf(retries, retry_calls[caller].chunk_id)]
    /\ retry_calls' = [retry_calls EXCEPT ![caller] = NoCall]
    /\ UNCHANGED <<ledgerVars, now, schedVars, retries, routing_table, executed>>

(***************************************************************************)
(* server.py: the ledger tools                                             *)
(***************************************************************************)
NewChunk(id, project, node_id, node_type, field, content, produced_by, task_type, sources) ==
    [id |-> id, project |-> project, node_id |-> node_id, node_type |-> node_type,
     field |-> field, content |-> content, produced_by |-> produced_by,
     produced_at |-> id, task_type |-> task_type, sources |-> sources,
     verified_by |-> None, verified_at |-> NoTime,
     confidence |-> confidence_for_model(produced_by), review_notes |-> None]

submit_chunk(project, node_id, node_type, field, content, produced_by, task_type, sources) ==
    /\ LET chunk == NewChunk(nextChunkId, project, node_id, node_type, field,
                             content, produced_by, task_type, sources)
       IN /\ chunks' = insert_chunk(chunks, chunk)
          /\ token_usage' = record_token_usage(token_usage, chunk.id, produced_by, content)
          /\ ret' = [op |-> "submit_chunk", chunk |-> chunk]
    /\ nextChunkId' = nextChunkId + 1
    /\ UNCHANGED <<now, schedVars, restVars>>

ValidReviewTargets_any == Confidence

ValidReviewTargets == {"watered", "sprouted", "rejected"}

mark_reviewed(chunk_id, verified_by, new_confidence, review_notes) ==
    /\ IF new_confidence \notin ValidReviewTargets
       THEN /\ UNCHANGED chunks
            /\ ret' = [op |-> "mark_reviewed", chunk_id |-> chunk_id,
                       verified_by |-> verified_by, new_confidence |-> new_confidence,
                       review_notes |-> review_notes,
                       msg |-> "invalid", chunk |-> NoChunk]
       ELSE /\ chunks' = UpdateReviewed(chunks, chunk_id, verified_by,
                                        new_confidence, review_notes, now)
            /\ LET chunk == SelectChunk(chunks', chunk_id)
               IN ret' = [op |-> "mark_reviewed", chunk_id |-> chunk_id,
                          verified_by |-> verified_by, new_confidence |-> new_confidence,
                          review_notes |-> review_notes,
                          msg |-> IF chunk = NoChunk THEN "not_found" ELSE "ok",
                          chunk |-> chunk]
    /\ UNCHANGED <<token_usage, nextChunkId, now, schedVars, restVars>>

(***************************************************************************)
(* db.py: scheduled tasks.  run_at is kept as isoformat() writes it: the   *)
(* wall-clock reading and the UTC offset, "" when the datetime is naive.   *)
(***************************************************************************)
Naive == ""
Utc == "+00:00"
Plus1 == "+01:00"

\* hours the wall clock of a zone is ahead of UTC
Offset(tz) == IF tz = Plus1 THEN 1 ELSE 0

\* the instant of a run_at, a naive one being read as UTC (scheduler.py:63)
Instant(run_at) == run_at.wall - Offset(run_at.tz)

\* the place of a zone suffix in the order of the stored text
SuffixRank(tz) == CASE tz = Naive -> 0 [] tz = Utc -> 1 [] tz = Plus1 -> 2

\* ORDER BY run_at compares the stored text: wall clock first, then the suffix
TextLeq(a, b) ==
    \/ a.wall < b.wall
    \/ a.wall = b.wall /\ SuffixRank(a.tz) <= SuffixRank(b.tz)

\* the sequences that list the rows of S in ascending run_at text order
RECURSIVE OrderByRunAt(_)
OrderByRunAt(S) ==
    IF S = {} THEN {<<>>}
    ELSE UNION {{<<r>> \o rest : rest \in OrderByRunAt(S \ {r})} :
                r \in {m \in S : \A q \in S : TextLeq(m.run_at, q.run_at)}}

insert_scheduled_task(ts, task) ==
    [id \in DOMAIN ts \cup {task.id} |-> IF id = task.id THEN task ELSE ts[id]]

get_pending_tasks_unfinished(ts) ==
    OrderByRunAt({ts[id] : id \in {i \in DOMAIN ts : ts[i].status \in {"pending", "running"}}})

\* the results get_pending_tasks may return
get_pending_tasks(ts) ==
    OrderByRunAt({ts[id] : id \in {i \in DOMAIN ts : ts[i].status = "pending"}})

update_task_status_rewrite(ts, task_id, status) ==
    [id \in DOMAIN ts |->
        IF id = task_id
        THEN [ts[id] EXCEPT !.status = status, !.run_at = [wall |-> @.wall, tz |-> Naive]]
        ELSE ts[id]]

\* UPDATE scheduled_tasks SET status = ? WHERE id = ?
update_task_status(ts, task_id, status) ==
    [id \in DOMAIN ts |-> IF id = task_id THEN [ts[id] EXCEPT !.status = status] ELSE ts[id]]

record_task_run_newest_first(runs, task_id, task_name, status, res, at) ==
    <<[task_id |-> task_id, task_name |-> task_name, started_at |-> at,
       status |-> status, result |-> res]>> \o runs

\* INSERT INTO task_runs
record_task_run(runs, task_id, task_name, status, res, at) ==
    Append(runs, [task_id |-> task_id, task_name |-> task_name, started_at |-> at,
                  status |-> status, result |-> res])

CancelMatches_any_status(ts, task_id) == {id \in DOMAIN ts : id = task_id}

\* the rows the UPDATE of cancel_scheduled_task matches
CancelMatches(ts, task_id) ==
    {id \in DOMAIN ts : id = task_id /\ ts[id].status = "pending"}

cancel_scheduled_task(task_id) ==
    /\ tasks' = [id \in DOMAIN tasks |->
                    IF id \in CancelMatches(tasks, task_id)
                    THEN [tasks[id] EXCEPT !.status = "cancelled"] ELSE tasks[id]]
    /\ ret' = [op |-> "cancel_scheduled_task", task_id |-> task_id,
               ok |-> Cardinality(CancelMatches(tasks, task_id)) > 0]
    /\ UNCHANGED <<ledgerVars, restVars, now, task_runs, nextTaskId, loopVars, faults>>

\* ScheduledTask(task_name, run_at) stored by insert_scheduled_task
enqueue(task_name, task_params, run_at) ==
    /\ nextTaskId <= MaxTasks
    /\ tasks' = insert_scheduled_task(tasks,
                    [id |-> nextTaskId, task_name |-> task_name,
                     task_params |-> task_params, run_at |-> run_at,
                     created_at |-> now, status |-> "pending"])
    /\ nextTaskId' = nextTaskId + 1
    /\ ret' = [op |-> "insert_scheduled_task", task_id |-> nextTaskId]
    /\ UNCHANGED <<ledgerVars, restVars, now, task_runs, loopVars, faults>>

(***************************************************************************)
(* scheduler.py                                                            *)
(***************************************************************************)
DefaultLimit == 50
NoResult == [kind |-> "none"]
\* the exception a store statement raises, with the statement that raised it
StoreError(site) == [kind |-> "error", text |-> "store unreachable", site |-> site]

\* the task kinds whose body reads the store
BuiltinTasks == {"opus_test", "export_chunks", "get_stats"}

\* what the body of a task returns
_execute_task(task_name, task_params) ==
    CASE task_name = "opus_test" ->
            [kind |-> "summary", text |-> "OpusTest Review Summary",
             size |-> Len(get_review_queue(None, None, None, DefaultLimit))]
      [] task_name = "export_chunks" ->
            [kind |-> "export", text |-> "export",
             size |-> BagCardinality(export_chunks(None, "watered"))]
      [] task_name = "get_stats" ->
            [kind |-> "stats", text |-> "stats", size |-> Cardinality(chunks)]
      [] OTHER ->
            [kind |-> "unknown", text |-> "Unknown task: " \o task_name, size |-> 0]

Due_always(task, at) == TRUE

\* line 63-64: run_at <= now, a run_at without timezone read as UTC
Due(task, at) == Instant(task.run_at) <= at

\* the position of the first due task of list at or after position i,
\* Len(list) + 1 when there is none
RECURSIVE NextDue(_, _, _)
NextDue(list, i, at) ==
    IF i > Len(list) THEN Len(list) + 1
    ELSE IF Due(list[i], at) THEN i
    ELSE NextDue(list, i + 1, at)

\* where the loop goes on from position i of the fetched list
Continue(list, i, at) ==
    IF NextDue(list, i, at) > Len(list) THEN "sleep" ELSE "mark_running"

CycleExcept_reraise == "crashed"

\* except Exception at the cycle level: log, then sleep
CycleExcept == "sleep"

\* exception e reached the cycle's handler (line 76): the cycle is over
AbortCycle(e) ==
    /\ pc' = CycleExcept
    /\ pending' = <<>>
    /\ idx' = 0
    /\ result' = NoResult
    /\ err' = e

\* a store statement raises
Fault ==
    /\ faults < MaxFaults
    /\ faults' = faults + 1

Task == pending[idx]

\* line 60-61: the fetch succeeds
GetPending ==
    /\ pc = "sleep"
    /\ \E list \in get_pending_tasks(tasks) :
          /\ pending' = list
          /\ idx' = NextDue(list, 1, now)
          /\ pc' = Continue(list, 1, now)
    /\ cycle_now' = now
    /\ err' = NoResult
    /\ UNCHANGED <<ledgerVars, restVars, now, ret, storeVars, result, faults>>

\* line 60: the fetch raises
GetPendingFails ==
    /\ pc = "sleep"
    /\ Fault
    /\ AbortCycle(StoreError("get_pending_tasks"))
    /\ UNCHANGED <<ledgerVars, restVars, now, ret, storeVars, cycle_now>>

\* line 66
MarkRunning ==
    /\ pc = "mark_running"
    /\ tasks' = update_task_status(tasks, Task.id, "running")
    /\ pc' = "execute"
    /\ UNCHANGED <<ledgerVars, restVars, now, ret, task_runs, nextTaskId,
                   pending, idx, cycle_now, result, err, faults>>

MarkRunningFails ==
    /\ pc = "mark_running"
    /\ Fault
    /\ AbortCycle(StoreError("running"))
    /\ UNCHANGED <<ledgerVars, restVars, now, ret, storeVars, cycle_now>>

\* line 68: the body of the current task is started
RunBody == executed' = [executed EXCEPT ![Task.id] = @ + 1]

Execute_promoting ==
    /\ pc = "execute"
    /\ result' = _execute_task(Task.task_name, Task.task_params)
    /\ chunks' = {[r EXCEPT !.confidence = "sprouted"] : r \in chunks}
    /\ pc' = "mark_completed"
    /\ RunBody
    /\ UNCHANGED <<token_usage, nextChunkId, retryVars, routing_table, now, ret, storeVars,
                   pending, idx, cycle_now, err, faults>>

\* line 68: the body returns
Execute ==
    /\ pc = "execute"
    /\ result' = _execute_task(Task.task_name, Task.task_params)
    /\ pc' = "mark_completed"
    /\ RunBody
    /\ UNCHANGED <<ledgerVars, retryVars, routing_table, now, ret, storeVars,
                   pending, idx, cycle_now, err, faults>>

\* line 68: the body raises (a read of the store fails)
ExecuteRaises ==
    /\ pc = "execute"
    /\ Task.task_name \in BuiltinTasks
    /\ Fault
    /\ err' = StoreError("body")
    /\ pc' = "mark_failed"
    /\ RunBody
    /\ UNCHANGED <<ledgerVars, retryVars, routing_table, now, ret, storeVars,
                   pending, idx, cycle_now, result>>

\* line 69
MarkCompleted ==
    /\ pc = "mark_completed"
    /\ tasks' = update_task_status(tasks, Task.id, "completed")
    /\ pc' = "record_completed"
    /\ UNCHANGED <<ledgerVars, restVars, now, ret, task_runs, nextTaskId,
                   pending, idx, cycle_now, result, err, faults>>

MarkCompletedFails ==
    /\ pc = "mark_completed"
    /\ Fault
    /\ err' = StoreError("completed")
    /\ pc' = "mark_failed"
    /\ UNCHANGED <<ledgerVars, restVars, now, ret, storeVars, pending, idx, cycle_now, result>>

\* the task's step is over: on to the next due task, or to sleep
NextTask ==
    /\ idx' = NextDue(pending, idx + 1, cycle_now)
    /\ pc' = Continue(pending, idx + 1, cycle_now)
    /\ pending' = IF pc' = "sleep" THEN <<>> ELSE pending
    /\ result' = NoResult
    /\ err' = NoResult

\* line 70
RecordCompleted ==
    /\ pc = "record_completed"
    /\ task_runs' = record_task_run(task_runs, Task.id, Task.task_name,
                                    "completed", result, now)
    /\ NextTask
    /\ UNCHANGED <<ledgerVars, restVars, now, ret, tasks, nextTaskId, cycle_now, faults>>

RecordCompletedFails ==
    /\ pc = "record_completed"
    /\ Fault
    /\ err' = StoreError("record_completed")
    /\ pc' = "mark_failed"
    /\ UNCHANGED <<ledgerVars, restVars, now, ret, storeVars, pending, idx, cycle_now, result>>

\* line 73
MarkFailed ==
    /\ pc = "mark_failed"
    /\ tasks' = update_task_status(tasks, Task.id, "failed")
    /\ pc' = "record_failed"
    /\ UNCHANGED <<ledgerVars, restVars, now, ret, task_runs, nextTaskId,
                   pending, idx, cycle_now, result, err, faults>>

MarkFailedFails ==
    /\ pc = "mark_failed"
    /\ Fault
    /\ AbortCycle(StoreError("failed"))
    /\ UNCHANGED <<ledgerVars, restVars, now, ret, storeVars, cycle_now>>

\* line 74
RecordFailed ==
    /\ pc = "record_failed"
    /\ task_runs' = record_task_run(task_runs, Task.id, Task.task_name,
                                    "failed", err, now)
    /\ NextTask
    /\ UNCHANGED <<ledgerVars, restVars, now, ret, tasks, nextTaskId, cycle_now, faults>>

RecordFailedFails ==
    /\ pc = "record_failed"
    /\ Fault
    /\ AbortCycle(StoreError("record_failed"))
    /\ UNCHANGED <<ledgerVars, restVars, now, ret, storeVars, cycle_now>>

\* server.py lifespan, line 26-27: the loop task is cancelled at shutdown,
\* wherever it is waiting
Stop ==
    /\ pc # "stopped"
    /\ pc' = "stopped"
    /\ pending' = <<>>
    /\ idx' = 0
    /\ result' = NoResult
    /\ err' = NoResult
    /\ UNCHANGED <<ledgerVars, restVars, now, ret, storeVars, cycle_now, faults>>

\* server.py lifespan, line 22: the next start creates the loop task anew
Restart ==
    /\ pc = "stopped"
    /\ pc' = "sleep"
    /\ UNCHANGED <<ledgerVars, restVars, now, ret, storeVars, pending, idx, cycle_now,
                   result, err, faults>>

\* the clock advances
Tick ==
    /\ now < MaxTime
    /\ now' = now + 1
    /\ UNCHANGED <<ledgerVars, restVars, ret, schedVars>>

(***************************************************************************)
(* The state after start-up: empty tables, the loop about to poll.         *)
(***************************************************************************)
Init ==
    /\ chunks = {}
    /\ token_usage = <<>>
    /\ nextChunkId = 1
    /\ now = 0
    /\ ret = [op |-> "init"]
    /\ tasks = <<>>
    /\ task_runs = <<>>
    /\ nextTaskId = 1
    /\ pc = "sleep"
    /\ pending = <<>>
    /\ idx = 0
    /\ cycle_now = 0
    /\ result = NoResult
    /\ err = NoResult
    /\ faults = 0
    /\ retries = <<>>
    /\ retry_calls = [c \in Callers |-> NoCall]
    /\ routing_table = _DEFAULT_ROUTING_TABLE
    /\ executed = [id \in 1..MaxTasks |-> 0]

\* at most `budget` calls of submit_chunk, each with a node (its project and
\* id) of nodes, a node type of types, a content of contents and a producing
\* model of models
SubmitFrom(budget, nodes, types, contents, models) ==
    /\ nextChunkId <= budget
    /\ \E node \in nodes, node_type \in types, field \in Fields,
          content \in contents, produced_by \in models,
          task_type \in TaskTypes, sources \in SourceLists :
           submit_chunk(node[1], node[2], node_type, field, content, produced_by,
                        task_type, sources)

\* mark_reviewed called on an issued id or on one never issued
ReviewWith(reviews, targets) ==
    \E chunk_id \in 1..nextChunkId, review \in reviews, new_confidence \in targets :
        mark_reviewed(chunk_id, review[1], new_confidence, review[2])

\* The same node id in two projects.
LedgerNodes == {<<"theology", "cath-person-001">>, <<"history", "cath-person-001">>}

(***************************************************************************)
(* The ledger under submissions: versions of two contents by two models,   *)
(* promoted or rejected in between.                                        *)
(***************************************************************************)
Submit ==
    SubmitFrom(MaxSubmits, LedgerNodes, {"Person"}, {Text(1), Text(2)},
               {"haiku-4.5", "sonnet-4.6"})
Review ==
    ReviewWith({<<"opus-4.6", "needs sources">>}, {"sprouted", "rejected"})

NextLedger == Submit \/ Review

SpecLedger == Init /\ [][NextLedger]_vars

(***************************************************************************)
(* The ledger under reviews: every target a caller may pass, by a         *)
(* reviewer who leaves no note and by one who leaves one.                  *)
(***************************************************************************)
SubmitR ==
    SubmitFrom(MaxReviewed, LedgerNodes, {"Person"}, {Text(1)},
               {"haiku-4.5", "sonnet-4.6"})
ReviewR ==
    ReviewWith(Reviews, ConfidenceArgs)

NextReview == SubmitR \/ ReviewR

SpecReview == Init /\ [][NextReview]_vars

(***************************************************************************)
(* The ledger under submissions by every kind of producer: the three       *)
(* models of the routing table, a tier name and a model it does not know.  *)
(***************************************************************************)
Producers == {"haiku-4.5", "sonnet-4.6", "opus-4.6", "haiku", "gpt-4o"}
SubmitP ==
    SubmitFrom(MaxSubmits, LedgerNodes, {"Person"}, {Text(1)}, Producers)

NextProducers == SubmitP

SpecProducers == Init /\ [][NextProducers]_vars

(***************************************************************************)
(* The ledger as the queries see it: two nodes of one project and one of   *)
(* another, of two node types, at every confidence.                        *)
(***************************************************************************)
QueryNodes == {<<"theology", "cath-person-001">>, <<"theology", "cath-person-002">>,
               <<"history", "hist-council-001">>}
SubmitQ ==
    SubmitFrom(MaxSubmits, QueryNodes, NodeTypes, {Text(1)}, {"haiku-4.5"})
ReviewQ ==
    ReviewWith({<<"opus-4.6", None>>}, ValidReviewTargets)

NextQuery == SubmitQ \/ ReviewQ

SpecQuery == Init /\ [][NextQuery]_vars

(***************************************************************************)
(* The task store and the scheduler loop: enqueue and cancel calls come    *)
(* between the loop's store statements, and a store statement may raise.   *)
(***************************************************************************)
RunAts == {[wall |-> w, tz |-> z] : w \in 0..MaxTime, z \in {Naive, Utc}}

Enqueue ==
    \E task_name \in {"get_stats", "nightly_backup"}, run_at \in RunAts :
        enqueue(task_name, None, run_at)

Cancel ==
    \E task_id \in 1..nextTaskId : cancel_scheduled_task(task_id)

Loop ==
    \/ GetPending \/ GetPendingFails
    \/ MarkRunning \/ MarkRunningFails
    \/ Execute \/ ExecuteRaises
    \/ MarkCompleted \/ MarkCompletedFails
    \/ RecordCompleted \/ RecordCompletedFails
    \/ MarkFailed \/ MarkFailedFails
    \/ RecordFailed \/ RecordFailedFails

NextSched == Enqueue \/ Cancel \/ Tick \/ Loop

SpecSched == Init /\ [][NextSched]_vars

(***************************************************************************)
(* Properties of the ledger.                                               *)
(***************************************************************************)
Version(r) == <<r.id, Triple(r), r.content, r.produced_by>>
Ids(rows) == {r.id : r \in rows}
QueueRows(q) == {q[i] : i \in 1..Len(q)}

C3_AtMostOnePerTriple ==
    \A r, q \in chunks : Triple(r) = Triple(q) => r = q

\* a submit_chunk step leaves, for its triple, exactly the submitted version;
\* the version it replaced is gone from the table, the queue and the export
C3_SubmitReplaces ==
    (ret'.op = "submit_chunk" /\ nextChunkId' = nextChunkId + 1) =>
        LET c == ret'.chunk IN
        /\ c.id = nextChunkId
        /\ {r \in chunks' : Triple(r) = Triple(c)} = {c}
        /\ \A old \in chunks : Triple(old) = Triple(c) =>
              /\ old.id \notin Ids(chunks')
              /\ SelectChunk(chunks', old.id) = NoChunk
              /\ \A nt \in NodeTypeArgs, cf \in ConfidenceArgs \cup {None}, l \in 0..MaxSubmits :
                    old.id \notin Ids(QueueRows(ReviewQueueOf(chunks', c.project, nt, cf, l)))
        /\ \A m \in ConfidenceArgs :
              LET out == ExportOf(chunks', c.project, m) IN
              \A d \in DOMAIN out :
                  (d.nodeId = c.node_id /\ d.field = c.field) =>
                      d = ExportEntry(c) /\ out[d] = 1

\* a mark_reviewed step adds, removes and rewrites no version
C3_ReviewKeepsVersions ==
    ret'.op = "mark_reviewed" =>
        {Version(r) : r \in chunks'} = {Version(r) : r \in chunks}

\* C3: after any sequence of submit_chunk and mark_reviewed calls the table
\* holds at most one chunk per (project, node id, field), and it is the most
\* recently submitted version (id, content, producing model); replaced
\* versions are not retrievable by id, through the queue or the export.
C3_UpsertKeepsLatest ==
    /\ []C3_AtMostOnePerTriple
    /\ [][C3_SubmitReplaces /\ C3_ReviewKeepsVersions]_vars

\* a version was replaced while a chunk of another triple is stored
C3_Witness ==
    /\ ret.op = "submit_chunk"
    /\ Cardinality(chunks) = 2
    /\ \E i \in 1..Len(token_usage) : token_usage[i].chunk_id \notin Ids(chunks)

\* C4: mark_reviewed on an existing chunk with a target in {watered,
\* sprouted, rejected} succeeds whatever the current confidence: the row then
\* has the new confidence, the given verifier and a verification time, and
\* the returned chunk is that row.
C4_ReviewApplies ==
    [][(/\ ret'.op = "mark_reviewed"
        /\ ret'.chunk_id \in Ids(chunks)
        /\ ret'.new_confidence \in {"watered", "sprouted", "rejected"})
       => \E r \in chunks' :
             /\ r.id = ret'.chunk_id
             /\ r.confidence = ret'.new_confidence
             /\ r.verified_by = ret'.verified_by
             /\ r.verified_at # NoTime
             /\ ret'.msg = "ok"
             /\ ret'.chunk = r]_vars

\* a chunk created as seed was reviewed to sprouted while another chunk is stored
C4_Witness ==
    /\ ret.op = "mark_reviewed" /\ ret.msg = "ok"
    /\ ret.chunk.confidence = "sprouted"
    /\ ret.chunk.produced_by = "haiku-4.5"
    /\ Cardinality(chunks) = 2
    /\ ret.chunk.verified_by = "opus-4.6"
    /\ ret.chunk.verified_at # NoTime
    /\ ret.chunk \in chunks

\* C5: mark_reviewed with a target outside {watered, sprouted, rejected}
\* ("seed", or a string that is no confidence) returns the error result and
\* changes no row of the table.
C5_InvalidTargetRejected ==
    [][(/\ ret'.op = "mark_reviewed"
        /\ ret'.new_confidence \notin {"watered", "sprouted", "rejected"})
       => (chunks' = chunks /\ ret'.msg = "invalid")]_vars

\* a review to "seed", with a note, of a stored chunk that has none was
\* refused, and so was one to a string that is no confidence
C5_Witness ==
    /\ ret.op = "mark_reviewed" /\ ret.msg = "invalid"
    /\ ret.new_confidence = "seed" /\ ret.review_notes # None
    /\ \E r \in chunks : r.id = ret.chunk_id /\ r.review_notes = None

\* the ordering seed(0) < watered(1) < sprouted(2) of the export threshold
RankOrder == ("seed" :> 0) @@ ("watered" :> 1) @@ ("sprouted" :> 2)

\* C9: export(project?, min_confidence) returns exactly the stored chunks (of
\* the project, when one is given) ranked at or above min_confidence on
\* seed < watered < sprouted; no rejected chunk is returned for any
\* min_confidence, in the ordering or not; a watered chunk is exported for
\* min_confidence = watered and not for sprouted.
C9_ExportAtOrAboveRank ==
    /\ \A project \in ProjectArgs, m \in ConfidenceArgs \cup {""} :
          LET out == export_chunks(project, m)
              expected == {r \in chunks :
                              /\ Truthy(project) => r.project = project
                              /\ r.confidence \in DOMAIN RankOrder
                              /\ RankOrder[r.confidence] >= RankOrder[m]}
          IN /\ m \in DOMAIN RankOrder => out = BagOfEntries(expected)
             /\ \A d \in DOMAIN out : d.confidence # "rejected"
    /\ \A r \in chunks : r.confidence = "watered" =>
          /\ ExportEntry(r) \in DOMAIN export_chunks(r.project, "watered")
          /\ ExportEntry(r) \notin DOMAIN export_chunks(r.project, "sprouted")

\* a project holds a watered and a rejected chunk and its export is not empty
C9_Witness ==
    \E r, q \in chunks :
        /\ r.project = q.project
        /\ r.confidence = "watered" /\ q.confidence = "rejected"
        /\ export_chunks(r.project, "watered") # EmptyBag
        /\ export_chunks(r.project, "seed") # export_chunks(r.project, "sprouted")

\* the chunks a queue without a confidence filter may hold
DefaultQueueOf(project) ==
    {r \in chunks : r.project = project /\ r.confidence \in {"seed", "watered"}}

C10_OnlySeedOrWatered ==
    \A project \in ProjectArgs, node_type \in NodeTypeArgs,
       confidence \in {None, ""}, limit \in 0..MaxLimit :
        \A r \in QueueRows(get_review_queue(project, node_type, confidence, limit)) :
            /\ r \in chunks
            /\ r.confidence \in {"seed", "watered"}
            /\ Truthy(project) => r.project = project
            /\ Truthy(node_type) => r.node_type = node_type

\* C10 as stated: with no confidence filter the queue holds only seed and
\* watered chunks of the given project and node type, and a chunk just
\* submitted as seed is in its project's queue, whatever limit (>= 1) the
\* caller passes.
C10_Original ==
    /\ C10_OnlySeedOrWatered
    /\ (ret.op = "submit_chunk" /\ ret.chunk.confidence = "seed") =>
          \A limit \in 1..MaxLimit :
              ret.chunk \in QueueRows(get_review_queue(ret.chunk.project, None, None, limit))

\* C10, amended: with no confidence filter the queue holds only seed and
\* watered chunks of the given project and node type; a chunk just submitted
\* as seed is in its project's queue when the limit is at least the number
\* of seed and watered chunks of that project (the queue is cut to the
\* `limit` oldest chunks).
C10_DefaultQueue ==
    /\ C10_OnlySeedOrWatered
    /\ (ret.op = "submit_chunk" /\ ret.chunk.confidence = "seed") =>
          \A limit \in 0..MaxLimit :
              limit >= Cardinality(DefaultQueueOf(ret.chunk.project)) =>
                  ret.chunk \in QueueRows(get_review_queue(ret.chunk.project, None, None, limit))

\* a seed chunk was just submitted to a project whose queue already held a
\* chunk, while sprouted and rejected chunks are stored
C10_Witness ==
    /\ ret.op = "submit_chunk" /\ ret.chunk.confidence = "seed"
    /\ Cardinality(DefaultQueueOf(ret.chunk.project)) = 2
    /\ \E r \in chunks : r.confidence \in {"sprouted", "rejected"}

(***************************************************************************)
(* Properties of the task store and the scheduler loop.                    *)
(***************************************************************************)
LegalTransitions ==
    {<<"pending", "running">>, <<"running", "completed">>,
     <<"running", "failed">>, <<"pending", "cancelled">>}

\* C1: every change of a task's status is pending->running,
\* running->completed, running->failed or pending->cancelled; completed,
\* failed and cancelled are never left.
C1_StatusLifecycle ==
    [][\A id \in DOMAIN tasks :
          tasks'[id].status # tasks[id].status =>
              <<tasks[id].status, tasks'[id].status>> \in LegalTransitions]_vars

\* C2: cancel(id) returns true exactly when the task is pending, and then
\* makes it cancelled; on a task that is running, completed, failed,
\* cancelled or unknown it returns false and changes no row.  No step makes a
\* task pending again, so after the first true every cancel of that id
\* returns false, whatever the scheduler did to the task in between.
C2_CancelOnce ==
    /\ [][\A task_id \in 1..(MaxTasks + 1) :
            cancel_scheduled_task(task_id) =>
                LET wasPending == task_id \in DOMAIN tasks
                                  /\ tasks[task_id].status = "pending"
                IN /\ ret'.ok = wasPending
                   /\ wasPending => tasks'[task_id].status = "cancelled"
                   /\ \A id \in DOMAIN tasks :
                         (id # task_id \/ ~wasPending) => tasks'[id] = tasks[id]
                   /\ task_runs' = task_runs]_vars
    /\ [][\A id \in DOMAIN tasks :
            tasks[id].status # "pending" => tasks'[id].status # "pending"]_vars

\* cancel returned false for a task the scheduler has completed, and a task
\* run is recorded for it
C2_Witness ==
    /\ ret.op = "cancel_scheduled_task" /\ ~ret.ok
    /\ ret.task_id \in DOMAIN tasks
    /\ tasks[ret.task_id].status = "completed"
    /\ \E i \in 1..Len(task_runs) : task_runs[i].task_id = ret.task_id

\* where the loop is while it processes the task at idx
TaskSteps == {"mark_running", "execute", "mark_completed", "record_completed",
              "mark_failed", "record_failed"}

\* C6: an exception raised while a due task is processed (in its body, in a
\* status write or in the TaskRun write) does not end the cycle: the cycle
\* ends only when no due task of the fetched list is left after the current
\* one.
C6_ExceptionConfined ==
    [][(pc \in TaskSteps /\ pc' = "sleep") =>
          NextDue(pending, idx + 1, cycle_now) > Len(pending)]_vars

\* the task runs recorded for task id
RECURSIVE RunsOf(_, _)
RunsOf(runs, id) ==
    IF runs = <<>> THEN <<>>
    ELSE (IF Head(runs).task_id = id THEN <<Head(runs)>> ELSE <<>>) \o RunsOf(Tail(runs), id)

\* C7: when the loop leaves a task whose body returned, the task is
\* completed and has exactly one TaskRun, completed, with the result text;
\* when the body raised, the task is failed and has exactly one TaskRun,
\* failed, with the exception message.
C7_OutcomeRecorded ==
    [][(pc \in TaskSteps \ {"mark_running", "execute"} /\ pc' \in {"sleep", "mark_running"}) =>
          LET id == Task.id
              runs == RunsOf(task_runs', id)
          IN /\ result # NoResult =>
                   /\ tasks'[id].status = "completed"
                   /\ Len(runs) = 1
                   /\ runs[1].status = "completed" /\ runs[1].result = result
             /\ result = NoResult =>
                   /\ tasks'[id].status = "failed"
                   /\ Len(runs) = 1
                   /\ runs[1].status = "failed" /\ runs[1].result = err]_vars

LoopPcs == {"sleep"} \cup TaskSteps

\* C8: when the fetch at the start of a cycle raises, no task row changes
\* and no TaskRun is appended, and the loop is asleep again; the loop is
\* never ended by an error, and from its sleep it polls again.
C8_FetchFailureContained ==
    /\ [](pc \in LoopPcs)
    /\ [](pc = "sleep" => ENABLED GetPending)
    /\ [][(pc = "sleep" /\ faults' > faults) =>
            (pc' = "sleep" /\ tasks' = tasks /\ task_runs' = task_runs)]_vars

\* the fetch raised while a due task was pending, and the loop sleeps
C8_Witness ==
    /\ pc = "sleep"
    /\ err = StoreError("get_pending_tasks")
    /\ \E id \in DOMAIN tasks : tasks[id].status = "pending" /\ Due(tasks[id], now)

(***************************************************************************)
(* Properties of the ledger: confidence and verification.                  *)
(***************************************************************************)
\* C11: once a chunk's confidence is rejected, no step changes the
\* confidence of that chunk (the row of that id) away from rejected.
C11_RejectedTerminal ==
    [][\A r \in chunks : r.confidence = "rejected" =>
          \A q \in chunks' : q.id = r.id => q.confidence = "rejected"]_vars

\* a chunk that no successful mark_reviewed has targeted
Unreviewed(r) == r.verified_by = None

\* no step sets the confidence of a stored chunk to seed
C12_SeedOnlyAtCreation ==
    \A r \in chunks, q \in chunks' :
        (q.id = r.id /\ r.confidence # "seed") => q.confidence # "seed"

\* C12 as stated: seed is set only at creation, and in every reachable state
\* a stored chunk whose confidence is not seed has been the target of a
\* successful mark_reviewed (its verified_by is set).
C12_Original ==
    /\ [](\A r \in chunks : r.confidence # "seed" => ~Unreviewed(r))
    /\ [][C12_SeedOnlyAtCreation]_vars

\* a step changes the confidence of a stored chunk only as a successful
\* mark_reviewed of that chunk, to the target passed, which is not seed
C12_ChangedOnlyByReview ==
    \A r \in chunks, q \in chunks' :
        (q.id = r.id /\ q.confidence # r.confidence) =>
            /\ ret'.op = "mark_reviewed" /\ ret'.msg = "ok"
            /\ ret'.chunk_id = r.id
            /\ q.confidence = ret'.new_confidence
            /\ q.confidence \in {"watered", "sprouted", "rejected"}
            /\ ~Unreviewed(q)

\* a step stores a new chunk only as a submission, unreviewed
C12_CreatedBySubmit ==
    \A q \in chunks' :
        q.id \notin Ids(chunks) =>
            ret'.op = "submit_chunk" /\ ret'.chunk = q /\ Unreviewed(q)

\* C12, amended: a chunk's confidence is set at creation from its producing
\* model (seed, watered or sprouted) and afterwards changes only through a
\* successful mark_reviewed, which never sets seed; in every reachable state
\* a stored chunk that has not been reviewed has the confidence of its
\* producing model, so a rejected chunk has been reviewed.
C12_ConfidenceSetBy ==
    /\ [](\A r \in chunks :
            /\ Unreviewed(r) => r.confidence = confidence_for_model(r.produced_by)
            /\ r.confidence = "rejected" => ~Unreviewed(r))
    /\ [][C12_SeedOnlyAtCreation /\ C12_ChangedOnlyByReview /\ C12_CreatedBySubmit]_vars

\* a chunk submitted by sonnet-4.6 is stored as watered with no verifier,
\* beside a chunk that a review has rejected
C12_Witness ==
    \E r, q \in chunks :
        /\ r.confidence = "watered" /\ Unreviewed(r) /\ r.produced_by = "sonnet-4.6"
        /\ q.confidence = "rejected" /\ ~Unreviewed(q)

\* verified_by and verified_at of a chunk are both set or both absent
VerifiedTogether(r) == (r.verified_by = None) <=> (r.verified_at = NoTime)

\* a step that stores a new chunk stores it with both absent, and a step
\* after which a stored chunk has a verifier it had not is a successful
\* mark_reviewed of that chunk
C13_SetOnlyByReview ==
    \A q \in chunks' :
        /\ q.id \notin Ids(chunks) =>
              q.verified_by = None /\ q.verified_at = NoTime
        /\ \A r \in chunks :
              (q.id = r.id /\ <<q.verified_by, q.verified_at>> # <<r.verified_by, r.verified_at>>) =>
                  /\ ret'.op = "mark_reviewed" /\ ret'.msg = "ok"
                  /\ ret'.chunk_id = r.id
                  /\ q.verified_by = ret'.verified_by /\ q.verified_at # NoTime

\* C13: in every reachable state verified_by and verified_at of every stored
\* chunk are both set or both absent; a chunk a submission creates has both
\* absent, and they are set only by a successful mark_reviewed.
C13_VerifiedTogether ==
    /\ [](\A r \in chunks : VerifiedTogether(r))
    /\ [][C13_SetOnlyByReview]_vars

\* a reviewed chunk, with verifier and verification time, beside a chunk
\* as its submission left it
C13_Witness ==
    \E r, q \in chunks :
        /\ r.verified_by = "opus-4.6" /\ r.verified_at # NoTime
        /\ q.verified_by = None /\ q.verified_at = NoTime
        /\ ret.op = "mark_reviewed" /\ ret.msg = "ok" /\ ret.chunk_id = r.id

\* C14 as stated: mark_reviewed on an id that is not stored returns the
\* not-found result and changes no chunk.
C14_Original ==
    [][(ret'.op = "mark_reviewed" /\ ret'.chunk_id \notin Ids(chunks)) =>
          (ret'.msg = "not_found" /\ chunks' = chunks)]_vars

\* C14, amended: mark_reviewed on an id that is not stored (never issued, or
\* replaced by a later submission) changes no chunk and returns no chunk;
\* its result is not-found when the target is one of watered, sprouted,
\* rejected, and the invalid-confidence error otherwise.
C14_MissingIdNoOp ==
    [][(ret'.op = "mark_reviewed" /\ ret'.chunk_id \notin Ids(chunks)) =>
          /\ chunks' = chunks
          /\ ret'.chunk = NoChunk
          /\ ret'.msg = IF ret'.new_confidence \in {"watered", "sprouted", "rejected"}
                        THEN "not_found" ELSE "invalid"]_vars

\* a review to rejected of an id that a later submission replaced was
\* answered not-found, while the replacing chunk is stored
C14_Witness ==
    /\ ret.op = "mark_reviewed" /\ ret.msg = "not_found"
    /\ ret.new_confidence = "rejected"
    /\ ret.chunk_id < nextChunkId - 1
    /\ ret.chunk_id \notin Ids(chunks)
    /\ \E r \in chunks : r.id > ret.chunk_id /\ r.confidence # "rejected"

\* C15: a submission stores its chunk with the confidence of the producing
\* model: seed for haiku-4.5, watered for sonnet-4.6, sprouted for opus-4.6,
\* seed for any other model identifier.
C15_InitialConfidence ==
    [][(ret'.op = "submit_chunk" /\ nextChunkId' = nextChunkId + 1) =>
          LET c == ret'.chunk IN
          /\ c \in chunks'
          /\ c.confidence = CASE c.produced_by = "haiku-4.5" -> "seed"
                              [] c.produced_by = "sonnet-4.6" -> "watered"
                              [] c.produced_by = "opus-4.6" -> "sprouted"
                              [] OTHER -> "seed"]_vars

\* chunks of opus-4.6 and of a model the table does not know are stored,
\* after a submission by sonnet-4.6 that was replaced
C15_Witness ==
    /\ \E r, q \in chunks :
          /\ r.produced_by = "opus-4.6" /\ r.confidence = "sprouted"
          /\ q.produced_by = "gpt-4o" /\ q.confidence = "seed"
    /\ \E i \in 1..Len(token_usage) : token_usage[i].model = "sonnet-4.6"

(***************************************************************************)
(* The retry log: two callers record retries for two chunk ids, their      *)
(* calls overlapping, between submissions, reviews and enqueues.           *)
(***************************************************************************)
RetryIds == {1, 2}

RecordRetry ==
    \E caller \in Callers, chunk_id \in RetryIds :
        RetryInsert(caller, chunk_id, "timeout")

RecordRetryReturns ==
    \E caller \in Callers : RetryReturn(caller)

SubmitT ==
    SubmitFrom(MaxReviewed, {<<"theology", "cath-person-001">>}, {"Person"},
               {Text(1)}, {"haiku-4.5"})
ReviewT ==
    ReviewWith({<<"opus-4.6", None>>}, {"rejected"})
EnqueueT ==
    enqueue("get_stats", None, [wall |-> 0, tz |-> Utc])

NextRetry == RecordRetry \/ RecordRetryReturns \/ SubmitT \/ ReviewT \/ EnqueueT

SpecRetry == Init /\ [][NextRetry]_vars

(***************************************************************************)
(* Properties of the retry log and of the routing table.                   *)
(***************************************************************************)
\* a record_retry call returns
RetryReturns ==
    ret'.op = "record_retry" /\ retry_calls' # retry_calls /\ retries' = retries

\* the rows of the log for chunk_id, by position
RetryRows(chunk_id) == {i \in 1..Len(retries) : retries[i].chunk_id = chunk_id}

\* k, for the call that inserted row rowid: it is the k-th call for its id
CallOrdinal(rowid) ==
    Cardinality({i \in RetryRows(retries[rowid].chunk_id) : i <= rowid})

\* C16 as stated: the k-th call of record_retry for a chunk id returns k,
\* whatever is interleaved.
C16_Original ==
    [][RetryReturns => ret'.cnt = CallOrdinal(ret'.rowid)]_vars

\* C16, amended: record_retry returns the number of rows of the log for its
\* chunk id when it counts; for the k-th call that is k plus the rows that
\* calls for the same chunk id inserted between its insert and its count,
\* so k when no such call overlaps it.  Rows of other chunk ids and other
\* operations do not count.
C16_RetryCount ==
    [][RetryReturns =>
          LET later == {i \in RetryRows(ret'.chunk_id) : i > ret'.rowid}
          IN /\ ret'.cnt = Cardinality(RetryRows(ret'.chunk_id))
             /\ ret'.cnt = CallOrdinal(ret'.rowid) + Cardinality(later)
             /\ later = {} => ret'.cnt = CallOrdinal(ret'.rowid)]_vars

\* the second call for a chunk id returned 2, a call for the other id and a
\* submission having come between the two
C16_Witness ==
    /\ ret.op = "record_retry" /\ ret.cnt = 2 /\ ret.rowid = 3
    /\ retries[2].chunk_id # ret.chunk_id
    /\ chunks # {}

(***************************************************************************)
(* The routing table under add_route and recommend_model: a task type of   *)
(* the default table and one with no route, the three tiers and a tier     *)
(* name MODEL_IDS does not hold.                                           *)
(***************************************************************************)
RouteTaskTypes == {"biography_synthesis", "poetry"}
RouteTiers == {"haiku", "opus", "gpt"}
RouteReasons == {"Custom route", "Needs depth"}

AddRoute ==
    \E task_type \in RouteTaskTypes, tier \in RouteTiers, reason \in RouteReasons :
        add_route(task_type, tier, reason)

Recommend ==
    \E task_type \in RouteTaskTypes : recommend_model(task_type)

NextRouter == AddRoute \/ Recommend

SpecRouter == Init /\ [][NextRouter]_vars

\* add_route(t, tier, reason) sets the route of t to exactly (tier, reason)
\* and leaves the route of every other task type as it was
C17_AddRouteReplaces ==
    ret'.op = "add_route" =>
        /\ DOMAIN routing_table' = DOMAIN routing_table \cup {ret'.task_type}
        /\ routing_table'[ret'.task_type] = <<ret'.tier, ret'.reason>>
        /\ \A t \in DOMAIN routing_table :
              t # ret'.task_type => routing_table'[t] = routing_table[t]

\* recommend_model(t) returns a recommendation: the fallback when t has no
\* route, else the tier and reason of the route of t with the tier's model
C17_RecommendReturns ==
    ret'.op = "recommend_model" =>
        LET t == ret'.task_type
            rec == ret'.rec
        IN /\ routing_table' = routing_table
           /\ rec.kind = "ok"
           /\ rec.task_type = t
           /\ IF t \in DOMAIN routing_table
              THEN /\ rec.tier = routing_table[t][1]
                   /\ rec.reason = routing_table[t][2]
              ELSE /\ rec.tier = "haiku"
                   /\ rec.recommended_model = "haiku-4.5"
                   /\ rec.reason = "Default: start cheap, escalate if needed"

\* C17: after any sequence of add_route calls recommend_model(t) never
\* fails: with no route for t it returns the haiku fallback, with a route
\* the tier and reason of the latest add_route (or default route) for t;
\* add_route replaces the entry of t and leaves all other routes unchanged.
C17_RecommendNeverFails ==
    [][C17_AddRouteReplaces /\ C17_RecommendReturns]_vars

(***************************************************************************)
(* Properties of tasks scheduled for a later time.                         *)
(***************************************************************************)
PendingIds(ts) == UNION {{list[i].id : i \in 1..Len(list)} : list \in get_pending_tasks(ts)}

\* a step of the scheduler loop (every other step leaves pc alone)
CycleStep == pc' # pc

\* an enqueued task is in the pending list
C18_EnqueuedIsPending ==
    (ret'.op = "insert_scheduled_task" /\ nextTaskId' = nextTaskId + 1) =>
        ret'.task_id \in PendingIds(tasks')

\* no task becomes running in a cycle whose now is before its run_at
C18_NotRunEarly ==
    \A id \in DOMAIN tasks :
        (tasks[id].status # "running" /\ tasks'[id].status = "running") =>
            Instant(tasks[id].run_at) <= cycle_now

\* the cycle leaves the row of a task that is not yet due as it was
C18_NotDueUntouched ==
    CycleStep =>
        \A id \in DOMAIN tasks :
            cycle_now < Instant(tasks[id].run_at) => tasks'[id] = tasks[id]

\* a cancelled task is not in the pending list, and never pending again
C18_CancelledNotPending ==
    \A id \in DOMAIN tasks :
        tasks[id].status = "cancelled" =>
            id \notin PendingIds(tasks) /\ tasks'[id].status # "pending"

\* C18: a task scheduled for a later time is in the pending list and is not
\* executed: no cycle whose now is before the task's run_at (a run_at with
\* no timezone read as UTC) moves it to running, and the cycle leaves its
\* row as it was; once cancelled it is not in the pending list.
C18_FutureTaskWaits ==
    [][/\ C18_EnqueuedIsPending
       /\ C18_NotRunEarly
       /\ C18_NotDueUntouched
       /\ C18_CancelledNotPending]_vars

\* a cycle is recording a due task it ran, and its fetched list holds a task
\* with a run_at without timezone that is not yet due and still pending
C18_Witness ==
    /\ pc = "record_completed"
    /\ \E i \in 1..Len(pending) :
          /\ cycle_now < Instant(pending[i].run_at)
          /\ pending[i].run_at.tz = Naive
          /\ tasks[pending[i].id].status = "pending"

(***************************************************************************)
(* What the scheduler loop writes to the task table.                       *)
(***************************************************************************)
\* the columns of a task row other than its status
Fixed(task) == <<task.id, task.task_name, task.task_params, task.run_at, task.created_at>>

\* a loop step keeps every row, adds none, and changes no column but status
C19_LoopWritesStatusOnly ==
    CycleStep =>
        /\ DOMAIN tasks' = DOMAIN tasks
        /\ \A id \in DOMAIN tasks : Fixed(tasks'[id]) = Fixed(tasks[id])

\* the set of task ids changes only by the row an enqueue adds
C19_IdsOnlyByEnqueue ==
    DOMAIN tasks' # DOMAIN tasks =>
        /\ ret'.op = "insert_scheduled_task"
        /\ ret'.task_id \notin DOMAIN tasks
        /\ DOMAIN tasks' = DOMAIN tasks \cup {ret'.task_id}

\* C19: the scheduler loop only changes the status of task rows: over any
\* number of cycles it inserts no task, deletes none, and changes no task's
\* name, parameters, run_at or creation time; the set of task ids changes
\* only through enqueue.
C19_LoopOnlyMutatesStatus ==
    [][C19_LoopWritesStatusOnly /\ C19_IdsOnlyByEnqueue]_vars

\* the loop has run a task created earlier to its end, among two tasks
C19_Witness ==
    /\ Cardinality(DOMAIN tasks) = 2
    /\ \E id \in DOMAIN tasks :
          /\ tasks[id].status \in {"completed", "failed"}
          /\ tasks[id].run_at.tz = Utc
          /\ tasks[id].created_at < now
          /\ Len(RunsOf(task_runs, id)) = 1

(***************************************************************************)
(* The scheduler loop kept running: the loop task is never cancelled and   *)
(* no body hangs, so the loop always takes its next step; store statements *)
(* raise at most MaxFaults times, after which the store answers; no task   *)
(* is cancelled.                                                           *)
(***************************************************************************)
EnqueueF ==
    \E run_at \in {[wall |-> 0, tz |-> Utc], [wall |-> MaxTime, tz |-> Naive]} :
        enqueue("get_stats", None, run_at)

NextFair == EnqueueF \/ Tick \/ Loop

SpecSchedFair == Init /\ [][NextFair]_vars /\ WF_vars(Loop)

\* task id is pending and its run_at is at or before the current time
DuePending(id) ==
    /\ id \in DOMAIN tasks
    /\ tasks[id].status = "pending"
    /\ Due(tasks[id], now)

Finished(id) == id \in DOMAIN tasks /\ tasks[id].status \in {"completed", "failed"}

\* C20: when no body hangs, the loop is not shut down and the store is
\* reachable in the end, every task that is pending with run_at at or before
\* the current time and is never cancelled is completed or failed in the
\* end, also when other due tasks raise and earlier cycles failed on store
\* errors.
C20_DueTaskFinishes ==
    \A id \in 1..MaxTasks : DuePending(id) ~> Finished(id)

(***************************************************************************)
(* The order in which a cycle takes the due tasks: run_at values written   *)
(* in UTC, without zone and in a zone one hour ahead of UTC; every store   *)
(* statement succeeds and no task is cancelled.                            *)
(***************************************************************************)
ZonedRunAts ==
    {[wall |-> 0, tz |-> Naive], [wall |-> MaxTime, tz |-> Utc],
     [wall |-> MaxTime, tz |-> Plus1]}

EnqueueZ ==
    \E task_name \in {"get_stats", "nightly_backup"}, run_at \in ZonedRunAts :
        enqueue(task_name, None, run_at)

LoopOk == GetPending \/ MarkRunning \/ Execute \/ MarkCompleted \/ RecordCompleted

NextOrder == EnqueueZ \/ Tick \/ LoopOk

SpecOrder == Init /\ [][NextOrder]_vars

Running(ts) == {id \in DOMAIN ts : ts[id].status = "running"}

\* the step sets task id to running
SetRunning(id) ==
    /\ id \in DOMAIN tasks
    /\ tasks[id].status # "running"
    /\ tasks'[id].status = "running"

\* a task is set to running when no other task is running; the tasks the
\* cycle has already passed are finished, and no due task still to come in
\* the fetched list has an earlier run_at
C21_OneAtATimeInOrder ==
    \A id \in DOMAIN tasks :
        SetRunning(id) =>
            /\ Running(tasks) = {}
            /\ \A j \in 1..Len(pending) :
                  /\ (j < idx /\ Due(pending[j], cycle_now)) =>
                        tasks[pending[j].id].status \in {"completed", "failed"}
                  /\ (j > idx /\ Due(pending[j], cycle_now)) =>
                        Instant(tasks[id].run_at) <= Instant(pending[j].run_at)

\* C21: within a cycle the due tasks are processed one at a time in
\* ascending run_at order: a task is set to running only after the task
\* processed before it is completed or failed, so at any time at most one
\* task has status running.
C21_SequentialInOrder ==
    [](Cardinality(Running(tasks)) <= 1) /\ [][C21_OneAtATimeInOrder]_vars

(***************************************************************************)
(* Properties of the scheduler loop: task names, logs, cancelled tasks.    *)
(***************************************************************************)
UnknownText(task_name) ==
    [kind |-> "unknown", text |-> "Unknown task: " \o task_name, size |-> 0]

\* the body of a task of unknown name returns the text and does not raise
C22_BodyReturnsText ==
    (pc = "execute" /\ pc' # pc /\ Task.task_name \notin BuiltinTasks) =>
        /\ pc' = "mark_completed"
        /\ result' = UnknownText(Task.task_name)

\* when the loop leaves a task of unknown name, the task is completed and
\* its one TaskRun is completed with the text
C22_EndsCompleted ==
    (/\ pc \in TaskSteps \ {"mark_running", "execute"}
     /\ pc' \in {"sleep", "mark_running"}
     /\ Task.task_name \notin BuiltinTasks) =>
        LET runs == RunsOf(task_runs', Task.id)
        IN /\ tasks'[Task.id].status = "completed"
           /\ Len(runs) = 1
           /\ runs[1].status = "completed"
           /\ runs[1].result = UnknownText(Task.task_name)

\* C22: a due task whose name is no known task kind is not an execution
\* failure: it ends with status completed, not failed, and its TaskRun is
\* completed with the result text "Unknown task: <name>".
C22_UnknownTaskCompletes ==
    [][C22_BodyReturnsText /\ C22_EndsCompleted]_vars

(***************************************************************************)
(* Token estimates: contents of 0..MaxWords words submitted by two models. *)
(***************************************************************************)
SubmitW ==
    SubmitFrom(MaxSubmits, {<<"theology", "cath-person-001">>}, {"Person"},
               {Text(n) : n \in 0..MaxWords}, {"haiku-4.5", "sonnet-4.6"})

NextTokens == SubmitW

SpecTokens == Init /\ [][NextTokens]_vars

\* SELECT SUM(estimated_tokens) FROM token_usage GROUP BY model
RECURSIVE TokenTotal(_, _)
TokenTotal(usage, model) ==
    IF usage = <<>> THEN 0
    ELSE (IF Head(usage).model = model THEN Head(usage).estimated_tokens ELSE 0)
         + TokenTotal(Tail(usage), model)

\* round(1.3 * n): the integer nearest to 13n/10, the even one on a tie
Round13(n) ==
    LET q == (13 * n) \div 10
        r == (13 * n) % 10
    IN IF r < 5 THEN q
       ELSE IF r > 5 THEN q + 1
       ELSE IF q % 2 = 0 THEN q ELSE q + 1

\* C23: each submission records a token estimate of round(word_count * 1.3)
\* for the producing model, the integer nearest to 1.3 times the number of
\* words, and a model's token total is the sum of the estimates of the
\* submissions made with that model.
C23_TokenEstimate ==
    [][(ret'.op = "submit_chunk" /\ nextChunkId' = nextChunkId + 1) =>
          LET c == ret'.chunk
              n == word_count(c.content)
          IN /\ Len(token_usage') = Len(token_usage) + 1
             /\ token_usage'[Len(token_usage')].model = c.produced_by
             /\ token_usage'[Len(token_usage')].estimated_tokens = Round13(n)
             /\ \A model \in {"haiku-4.5", "sonnet-4.6"} :
                   TokenTotal(token_usage', model) =
                       TokenTotal(token_usage, model)
                       + (IF model = c.produced_by THEN Round13(n) ELSE 0)]_vars

(***************************************************************************)
(* Both logs in one run: the scheduler loop with store errors, enqueue and *)
(* cancel, record_retry, and a chunk submitted and rejected.               *)
(***************************************************************************)
RecordRetryL == RetryInsert("a", 1, "timeout")
RecordRetryReturnsL == RetryReturn("a")
SubmitL ==
    SubmitFrom(1, {<<"theology", "cath-person-001">>}, {"Person"}, {Text(1)}, {"haiku-4.5"})

NextLogs ==
    \/ RecordRetryL \/ RecordRetryReturnsL
    \/ SubmitL \/ ReviewT
    \/ EnqueueT \/ Cancel
    \/ Loop

SpecLogs == Init /\ [][NextLogs]_vars

\* log is as before, or as before with one record added at the end
Extended(before, after) ==
    \/ after = before
    \/ /\ Len(after) = Len(before) + 1
       /\ SubSeq(after, 1, Len(before)) = before

\* C24: the TaskRun log and the RetryRecord log are append-only: no step of
\* the scheduler cycle, of enqueue, cancel or a status write, or of a ledger
\* operation changes or removes a record; in every step each log is
\* unchanged or one record longer at its end.
C24_LogsAppendOnly ==
    [][Extended(task_runs, task_runs') /\ Extended(retries, retries')]_vars

\* both logs hold two records, after a submission and a failed task
C24_Witness ==
    /\ Len(task_runs) = 2
    /\ Len(retries) >= 2
    /\ chunks # {}
    /\ \E id \in DOMAIN tasks : tasks[id].status = "failed"

(***************************************************************************)
(* The ledger's queries, the retry log, the task store and the scheduler   *)
(* running the built-in task kinds, over chunks submitted and reviewed.    *)
(***************************************************************************)
\* a call that only reads the store and returns value
Query(op, value) ==
    /\ ret' = [op |-> op, value |-> value]
    /\ UNCHANGED <<ledgerVars, now, schedVars, restVars>>

ReviewQueueCall ==
    Query("get_review_queue", get_review_queue(None, None, None, DefaultLimit))
ExportCall == Query("export_chunks", export_chunks(None, "watered"))
StatsCall == Query("get_stats", get_stats(None))
CostReportCall == Query("get_cost_report", get_cost_report)

SubmitF ==
    SubmitFrom(1, {<<"theology", "cath-person-001">>}, {"Person"}, {Text(1)}, {"sonnet-4.6"})
ReviewF ==
    ReviewWith({<<"opus-4.6", "needs sources">>}, {"sprouted"})
EnqueueB ==
    \E task_name \in BuiltinTasks : enqueue(task_name, None, [wall |-> 0, tz |-> Utc])

\* the loop when only bodies raise, no write of the loop
LoopB ==
    \/ GetPending \/ MarkRunning
    \/ Execute \/ ExecuteRaises
    \/ MarkCompleted \/ RecordCompleted
    \/ MarkFailed \/ RecordFailed

NextFrame ==
    \/ SubmitF \/ ReviewF
    \/ ReviewQueueCall \/ ExportCall \/ StatsCall \/ CostReportCall
    \/ RecordRetryL \/ RecordRetryReturnsL
    \/ EnqueueB \/ Cancel
    \/ LoopB

SpecFrame == Init /\ [][NextFrame]_vars

\* the step is a submit_chunk or a mark_reviewed call
CallerStep ==
    /\ ret' # ret
    /\ ret'.op \in {"submit_chunk", "mark_reviewed"}

\* C25: confidence changes are caller-driven only: the review queue, stats,
\* export, cost report, record_retry, every task store operation and the
\* scheduler running the built-in task kinds leave every stored chunk's
\* confidence, verified_by, verified_at, review notes and content unchanged.
C25_OnlyCallersChangeChunks ==
    [][~CallerStep => chunks' = chunks]_vars

\* a reviewed chunk is stored, the scheduler has run an export over it, a
\* retry is logged, and the review queue has just been read
C25_Witness ==
    /\ \E r \in chunks : r.confidence = "sprouted" /\ r.review_notes = "needs sources"
    /\ \E i \in 1..Len(task_runs) :
          /\ task_runs[i].status = "completed"
          /\ task_runs[i].result.kind = "export"
          /\ task_runs[i].result.size = 1
    /\ \E id \in DOMAIN tasks : tasks[id].status = "cancelled"
    /\ Len(retries) >= 1
    /\ ret.op = "get_review_queue"

\* a cancelled task stays cancelled
C26_StaysCancelled ==
    \A id \in DOMAIN tasks :
        tasks[id].status = "cancelled" => tasks'[id].status = "cancelled"

\* a cancelled task has no TaskRun
C26_NoRunWhileCancelled ==
    \A id \in DOMAIN tasks : tasks[id].status = "cancelled" => RunsOf(task_runs, id) = <<>>

C26_FetchSkipsCancelled ==
    (pc = "sleep" /\ pending' # pending) =>
        \A j \in 1..Len(pending') : tasks[pending'[j].id].status = "pending"

\* a cancelled task leaves cancelled only by the cycle's write of running,
\* for a task the cycle fetched while it was still pending
C26_OnlyOverwrittenByFetched ==
    \A id \in DOMAIN tasks :
        (tasks[id].status = "cancelled" /\ tasks'[id].status # "cancelled") =>
            /\ pc = "mark_running"
            /\ Task.id = id
            /\ Task.status = "pending"
            /\ tasks'[id].status = "running"

NextRestart == EnqueueF \/ Cancel \/ Tick \/ Loop \/ Stop \/ Restart

SpecRestart == Init /\ [][NextRestart]_vars

\* a fetch lists each task at most once, and only tasks that are pending
C27_FetchOnlyPending ==
    (pc = "sleep" /\ pending' # pending) =>
        /\ \A i, j \in 1..Len(pending') : pending'[i].id = pending'[j].id => i = j
        /\ \A j \in 1..Len(pending') : tasks[pending'[j].id].status = "pending"

\* a task that has left pending is never pending again
C27_NeverPendingAgain ==
    \A id \in DOMAIN tasks : tasks[id].status # "pending" => tasks'[id].status # "pending"

\* C27: with a single poller the body of each scheduled task is executed at
\* most once over all cycles: a task that has left pending (running,
\* completed, failed or cancelled, also one left in running because the loop
\* was stopped or a status write failed) is never fetched again and never
\* executed again.
C27_AtMostOnce ==
    /\ [](\A id \in 1..MaxTasks : executed[id] <= 1)
    /\ [][C27_FetchOnlyPending /\ C27_NeverPendingAgain]_vars

\* the loop was stopped while a task was running, was started again and has
\* polled since; the task is still running and its body ran once
C27_Witness ==
    /\ pc = "sleep"
    /\ cycle_now = MaxTime
    /\ \E id \in DOMAIN tasks :
          /\ tasks[id].status = "running"
          /\ executed[id] = 1
          /\ RunsOf(task_runs, id) = <<>>
          /\ faults = 0
    /\ \E id \in DOMAIN tasks : tasks[id].status = "completed"

\* C28: whenever the scheduler is idle between cycles, task status and run
\* history agree: no task is running, every completed or failed task has
\* exactly one TaskRun, whose status is the task's, and every pending or
\* cancelled task has no TaskRun.
C28_IdleConsistent ==
    pc = "sleep" =>
        \A id \in DOMAIN tasks :
            LET runs == RunsOf(task_runs, id)
            IN /\ tasks[id].status # "running"
               /\ tasks[id].status \in {"completed", "failed"} =>
                     Len(runs) = 1 /\ runs[1].status = tasks[id].status
               /\ tasks[id].status \in {"pending", "cancelled"} => runs = <<>>

(***************************************************************************)
(* Properties of resubmission.                                             *)
(***************************************************************************)
\* the chunk stored in rows under the triple of c
StoredFor(rows, c) == {r \in rows : Triple(r) = Triple(c)}

\* C29: resubmitting a chunk for an existing (project, node id, field)
\* triple discards the prior review state, whatever it was: the stored chunk
\* has a new id, the default confidence of the new producing model, and no
\* verified_by, verified_at or review notes; every chunk stored under another
\* triple is unchanged.
C29_ResubmitDiscardsReview ==
    [][(/\ ret'.op = "submit_chunk"
        /\ nextChunkId' = nextChunkId + 1
        /\ StoredFor(chunks, ret'.chunk) # {}) =>
          LET c == ret'.chunk
          IN \E s \in chunks' :
                /\ StoredFor(chunks', c) = {s}
                /\ s.id \notin Ids(chunks)
                /\ s.content = c.content /\ s.produced_by = c.produced_by
                /\ s.confidence = confidence_for_model(c.produced_by)
                /\ s.verified_by = None
                /\ s.verified_at = NoTime
                /\ s.review_notes = None
                /\ chunks' \ {s} = chunks \ StoredFor(chunks, c)]_vars

\* the third submission has replaced the second on its triple, while the
\* first chunk, under the other triple, keeps its review
C29_Witness ==
    /\ ret.op = "submit_chunk"
    /\ ret.chunk.id = 3
    /\ ret.chunk \in chunks
    /\ Ids(chunks) = {1, 3}
    /\ \E q \in chunks : q.id = 1 /\ q.confidence = "rejected" /\ q.verified_by = "opus-4.6"

====
